---- MODULE Spec2Model ----
(***************************************************************************)
(* A model of tvdb_api.py: the Tvdb catalog (name -> series id -> Show),   *)
(* its hydration from the remote documents, the Show / Season / Episode    *)
(* containers with their lookup errors, and the recursive search.          *)
(*                                                                         *)
(* Python strings are sequences of one-character strings, Python dicts are *)
(* functions with a finite domain, and Python's None is the value None.    *)
(***************************************************************************)
EXTENDS Integers, Sequences, FiniteSets, TLC

\* ------------------------------------------------------------------ strings

None == <<"None">>

UpperChars ==
    <<"A", "B", "C", "D", "E", "F", "G", "H", "I", "J", "K", "L", "M",
      "N", "O", "P", "Q", "R", "S", "T", "U", "V", "W", "X", "Y", "Z">>

LowerChars ==
    <<"a", "b", "c", "d", "e", "f", "g", "h", "i", "j", "k", "l", "m",
      "n", "o", "p", "q", "r", "s", "t", "u", "v", "w", "x", "y", "z">>

Digits == <<"0", "1", "2", "3", "4", "5", "6", "7", "8", "9">>

WhiteSpace == {" ", "\t", "\n"}

DigitVals == [c \in {Digits[i] : i \in 1..10} |->
                 (CHOOSE i \in 1..10 : Digits[i] = c) - 1]

IsDigit(c) == c \in DOMAIN DigitVals

DigitVal(c) == DigitVals[c]

LowerOf == [c \in {UpperChars[i] : i \in 1..26} |->
               LowerChars[CHOOSE i \in 1..26 : UpperChars[i] = c]]

LowerChar(c) == IF c \in DOMAIN LowerOf THEN LowerOf[c] ELSE c

\* str.lower()
Lower(s) == [i \in 1..Len(s) |-> LowerChar(s[i])]

\* str.endswith(suffix)
EndsWith(s, suffix) ==
    /\ Len(s) >= Len(suffix)
    /\ SubSeq(s, Len(s) - Len(suffix) + 1, Len(s)) = suffix

\* str.startswith(prefix) at position i
MatchesAt(s, i, t) ==
    /\ i + Len(t) - 1 <= Len(s)
    /\ SubSeq(s, i, i + Len(t) - 1) = t

\* str.find(t): the lowest index (0-based) where t occurs in s, or -1
Find(s, t) ==
    IF \E i \in 1..(Len(s) + 1) : MatchesAt(s, i, t)
    THEN (CHOOSE i \in 1..(Len(s) + 1) :
              /\ MatchesAt(s, i, t)
              /\ \A j \in 1..(i - 1) : ~MatchesAt(s, j, t)) - 1
    ELSE -1

\* str.replace(old, new), scanning left to right (old is not empty)
RECURSIVE ReplaceFrom(_, _, _, _)
ReplaceFrom(s, i, old, new) ==
    IF i > Len(s) THEN <<>>
    ELSE IF MatchesAt(s, i, old)
         THEN new \o ReplaceFrom(s, i + Len(old), old, new)
         ELSE <<s[i]>> \o ReplaceFrom(s, i + 1, old, new)

Replace(s, old, new) == ReplaceFrom(s, 1, old, new)

\* str.strip()
RECURSIVE LStrip(_)
LStrip(s) ==
    IF s # <<>> /\ Head(s) \in WhiteSpace THEN LStrip(Tail(s)) ELSE s

RECURSIVE RStrip(_)
RStrip(s) ==
    IF s # <<>> /\ s[Len(s)] \in WhiteSpace
    THEN RStrip(SubSeq(s, 1, Len(s) - 1))
    ELSE s

Strip(s) == RStrip(LStrip(s))

\* the digits of int(x) for a string x: surrounding whitespace and one sign
\* are accepted
Unsigned(s) ==
    LET t == Strip(s)
    IN  IF t # <<>> /\ t[1] \in {"+", "-"} THEN Tail(t) ELSE t

IsIntText(s) ==
    /\ Unsigned(s) # <<>>
    /\ \A i \in 1..Len(Unsigned(s)) : IsDigit(Unsigned(s)[i])

RECURSIVE DigitsValue(_)
DigitsValue(s) ==
    IF s = <<>> THEN 0
    ELSE 10 * DigitsValue(SubSeq(s, 1, Len(s) - 1)) + DigitVal(s[Len(s)])

\* int(x) for a string x that IsIntText
ParseInt(s) ==
    LET t == Strip(s)
    IN  IF t[1] = "-" THEN 0 - DigitsValue(Unsigned(s))
        ELSE DigitsValue(Unsigned(s))

\* unicode(x) / "%s" % x for a text or None
Str(x) == IF x = None THEN <<"N", "o", "n", "e">> ELSE x

\* -------------------------------------------------------------------- dicts

EmptyDict == <<>>

Put(d, k, v) == [x \in (DOMAIN d) \cup {k} |-> IF x = k THEN v ELSE d[x]]

\* ---------------------------------------------------------------- documents

\* An element of a parsed document is the sequence of its children, each a
\* tag and a text (None for an empty element).
Child(tag, text) == [tag |-> tag, text |-> text]

HasChild(el, tag) == \E i \in 1..Len(el) : el[i].tag = tag

\* el.find(tag).text
FindText(el, tag) ==
    el[CHOOSE i \in 1..Len(el) :
           /\ el[i].tag = tag
           /\ \A j \in 1..(i - 1) : el[j].tag # tag].text

\* the answer of one fetch: the parsed document, or an IOError
Ok(doc) == [ok |-> TRUE, doc |-> doc]

IOError == [ok |-> FALSE, doc |-> <<>>]

\* ----------------------------------------------------- Show, Season, Episode

\* Show(): an empty dict of seasons and an empty data dict; oid tells the
\* instances apart
Show(oid) == [oid |-> oid, data |-> EmptyDict, seasons |-> EmptyDict]

Season == EmptyDict

Episode == EmptyDict

\* int keys index seasons and episodes, str keys index attributes
IntKey(n) == [t |-> "int", i |-> n, s |-> <<>>]

StrKey(s) == [t |-> "str", i |-> 0, s |-> s]

\* can_int as str.isdigit: no surrounding whitespace, no sign
can_int_isdigit(x) ==
    IF x.t = "int" THEN TRUE
    ELSE x.s # <<>> /\ \A i \in 1..Len(x.s) : IsDigit(x.s[i])

\* can_int(x): int(x) succeeds (x an int or a string)
can_int(x) == IF x.t = "int" THEN TRUE ELSE IsIntText(x.s)

\* the outcome of a call: the exception raised ("none" when it returns), the
\* value returned, and the container as the call leaves it
Return(val, self) == [exc |-> "none", val |-> val, self |-> self]

Raise(exc, self) == [exc |-> exc, val |-> None, self |-> self]

\* Show.__getitem__ of a defaultdict: a season that is missing is created
ShowGetItem_autocreate(self, key) ==
    IF key.t = "int" /\ key.i \in DOMAIN self.seasons
    THEN Return(self.seasons[key.i], self)
    ELSE IF key.t = "str" /\ key.s \in DOMAIN self.data
    THEN Return(self.data[key.s], self)
    ELSE IF key.t = "int"
    THEN Raise("tvdb_seasonnotfound",
               [self EXCEPT !.seasons = Put(@, key.i, EmptyDict)])
    ELSE IF can_int(key)
    THEN Raise("tvdb_seasonnotfound", self)
    ELSE Raise("tvdb_attributenotfound", self)

\* Show.__getitem__(self, key)
ShowGetItem(self, key) ==
    IF key.t = "int" /\ key.i \in DOMAIN self.seasons
    THEN Return(self.seasons[key.i], self)
    ELSE IF key.t = "str" /\ key.s \in DOMAIN self.data
    THEN Return(self.data[key.s], self)
    ELSE IF can_int(key)
    THEN Raise("tvdb_seasonnotfound", self)
    ELSE Raise("tvdb_attributenotfound", self)

\* Season.__getitem__ raising the exception of Show.__getitem__
SeasonGetItem_seasonnotfound(self, episode_number) ==
    IF ~(episode_number.t = "int" /\ episode_number.i \in DOMAIN self)
    THEN Raise("tvdb_seasonnotfound", self)
    ELSE Return(self[episode_number.i], self)

\* Season.__getitem__(self, episode_number)
SeasonGetItem(self, episode_number) ==
    IF ~(episode_number.t = "int" /\ episode_number.i \in DOMAIN self)
    THEN Raise("tvdb_episodenotfound", self)
    ELSE Return(self[episode_number.i], self)

\* Episode.__getitem__(self, key)
EpisodeGetItem(self, key) ==
    IF key.t = "str" /\ key.s \in DOMAIN self
    THEN Return(self[key.s], self)
    ELSE Raise("tvdb_attributenotfound", self)

\* ------------------------------------------------------------------- search

\* Episode.search without term.lower()
EpisodeSearch_termcase(self, term, key) ==
    IF term = None THEN [exc |-> "TypeError", found |-> FALSE]
    ELSE [exc |-> "none",
          found |-> \E cur_key \in DOMAIN self :
                        /\ ~(key # None /\ Lower(cur_key) # key)
                        /\ Find(Lower(Str(self[cur_key])), term) > -1]

\* Episode.search(self, term, key): TRUE when it returns self, FALSE when it
\* returns None; a missing term is a TypeError
EpisodeSearch(self, term, key) ==
    IF term = None THEN [exc |-> "TypeError", found |-> FALSE]
    ELSE [exc |-> "none",
          found |-> \E cur_key \in DOMAIN self :
                        /\ ~(key # None /\ Lower(cur_key) # key)
                        /\ Find(Lower(Str(self[cur_key])), Lower(Lower(term))) > -1]

\* dict.keys() of a dict with small int keys, in iteration order
RECURSIVE Keys(_)
Keys(d) ==
    IF DOMAIN d = {} THEN <<>>
    ELSE LET k == CHOOSE x \in DOMAIN d : \A y \in DOMAIN d : x <= y
         IN  <<k>> \o Keys([x \in (DOMAIN d) \ {k} |-> d[x]])

\* Season.search(self, term, key): the list of the episodes (named by their
\* numbers) whose search returned them
RECURSIVE SeasonSearchFrom(_, _, _, _)
SeasonSearchFrom(self, order, term, key) ==
    IF order = <<>> THEN [exc |-> "none", results |-> <<>>]
    ELSE LET searchresult == EpisodeSearch(self[Head(order)], term, key)
             rest == SeasonSearchFrom(self, Tail(order), term, key)
         IN  IF searchresult.exc # "none"
             THEN [exc |-> searchresult.exc, results |-> <<>>]
             ELSE IF rest.exc # "none" THEN rest
             ELSE IF searchresult.found
             THEN [exc |-> "none", results |-> <<Head(order)>> \o rest.results]
             ELSE rest

\* Season.search returning at the first match
SeasonSearch_first(self, term, key) ==
    LET r == SeasonSearchFrom(self, Keys(self), term, key)
    IN  IF Len(r.results) > 1
        THEN [r EXCEPT !.results = <<Head(r.results)>>]
        ELSE r

SeasonSearch(self, term, key) == SeasonSearchFrom(self, Keys(self), term, key)

\* Show.search(self, term, key): the episodes found, each named by its
\* season number and episode number
RECURSIVE ShowSearchFrom(_, _, _, _)
ShowSearchFrom(self, order, term, key) ==
    IF order = <<>> THEN [exc |-> "none", results |-> <<>>]
    ELSE LET searchresult == SeasonSearch(self.seasons[Head(order)], term, key)
             rest == ShowSearchFrom(self, Tail(order), term, key)
             found == [i \in 1..Len(searchresult.results) |->
                          <<Head(order), searchresult.results[i]>>]
         IN  IF searchresult.exc # "none"
             THEN [exc |-> searchresult.exc, results |-> <<>>]
             ELSE IF rest.exc # "none" THEN rest
             ELSE IF Len(searchresult.results) # 0
             THEN [exc |-> "none", results |-> found \o rest.results]
             ELSE rest

ShowSearch(self, term, key) ==
    ShowSearchFrom(self, Keys(self.seasons), term, key)

\* ---------------------------------------------------------------- hydration

\* config['base_url'] and config['url_bannerPath'] % v
base_url == <<"h", "t", "t", "p", ":", "/", "/", "w", "w", "w", ".", "t", "h", "e", "t", "v", "d", "b", ".", "c", "o", "m">>

url_bannerPath(v) == base_url \o <<"/", "b", "a", "n", "n", "e", "r", "s", "/">> \o Str(v)

\* d[k] once "if k not in d: d[k] = {}" has run
GetOrNew(d, k) == IF k \in DOMAIN d THEN d[k] ELSE EmptyDict

\* "self.shows[sid] = Show()" without the test "if sid not in self.shows"
WithShow_always(shows, sid) ==
    Put(shows, sid,
        Show(IF sid \in DOMAIN shows
             THEN shows[sid].oid + Cardinality(DOMAIN shows)
             ELSE Cardinality(DOMAIN shows) + 1))

\* self.shows once "if sid not in self.shows: self.shows[sid] = Show()" has
\* run; the new instance is the next one created
WithShow(shows, sid) ==
    IF sid \notin DOMAIN shows
    THEN Put(shows, sid, Show(Cardinality(DOMAIN shows) + 1))
    ELSE shows

\* a Show once "if seas not in show: show[seas] = Season()",
\* "if ep not in show[seas]: show[seas][ep] = Episode()" and
\* "show[seas][ep][attrib] = value" have run
SetEpisodeItem(show, seas, ep, attrib, value) ==
    [show EXCEPT !.seasons =
        Put(@, seas,
            Put(GetOrNew(@, seas), ep,
                Put(GetOrNew(GetOrNew(@, seas), ep), attrib, value)))]

\* Tvdb._setItem(sid, seas, ep, attrib, value) on self.shows
SetItem(shows, sid, seas, ep, attrib, value) ==
    [WithShow(shows, sid) EXCEPT
        ![sid] = SetEpisodeItem(@, seas, ep, attrib, value)]

\* Tvdb._setShowData(sid, key, value) on self.shows
SetShowData(shows, sid, key, value) ==
    [WithShow(shows, sid) EXCEPT ![sid].data = Put(@, key, value)]

\* Tvdb._cleanData(data)
CleanData(data) == Strip(Replace(data, <<"&", "a", "m", "p", ";">>, <<"a", "n", "d">>))

\* _getShowData, the loop over the children of the Series element
RECURSIVE SetSeriesInfo(_, _, _, _)
SetSeriesInfo(shows, sid, seriesInfoEt, i) ==
    IF i > Len(seriesInfoEt) THEN shows
    ELSE SetSeriesInfo(
             SetShowData(shows, sid, Lower(seriesInfoEt[i].tag),
                         seriesInfoEt[i].text),
             sid, seriesInfoEt, i + 1)

\* _getShowData, the children of one Banner element set on its record
RECURSIVE SetBannerInfo(_, _, _)
SetBannerInfo(rec, cur_banner, i) ==
    IF i > Len(cur_banner) THEN rec
    ELSE SetBannerInfo(Put(rec, cur_banner[i].tag, cur_banner[i].text),
                       cur_banner, i + 1)

\* _getShowData, the loop over the items of a banner record: every key that
\* ends in "path" gets a "_" + key entry holding the URL of its value
SetBannerPaths(rec) ==
    [x \in (DOMAIN rec) \cup {<<"_">> \o k : k \in {p \in DOMAIN rec : EndsWith(p, <<"p", "a", "t", "h">>)}} |->
        IF Len(x) > 0 /\ x[1] = "_" /\ Tail(x) \in DOMAIN rec
              /\ EndsWith(Tail(x), <<"p", "a", "t", "h">>)
        THEN url_bannerPath(rec[Tail(x)])
        ELSE rec[x]]

\* _getShowData, one Banner element that has both types: its record is
\* created when missing, filled and given its URLs
SetBanner(banners, btype, btype2, bid, cur_banner) ==
    Put(banners, btype,
        Put(GetOrNew(banners, btype), btype2,
            Put(GetOrNew(GetOrNew(banners, btype), btype2), bid,
                SetBannerPaths(
                    SetBannerInfo(
                        GetOrNew(GetOrNew(GetOrNew(banners, btype), btype2),
                                 bid),
                        cur_banner, 1)))))

\* _getShowData, the loop over the Banner elements
RECURSIVE ParseBanners(_, _, _)
ParseBanners(banners, bannersEt, i) ==
    IF i > Len(bannersEt) THEN banners
    ELSE IF ~HasChild(bannersEt[i], <<"B", "a", "n", "n", "e", "r", "T", "y", "p", "e">>)
               \/ ~HasChild(bannersEt[i], <<"B", "a", "n", "n", "e", "r", "T", "y", "p", "e", "2">>)
    THEN ParseBanners(banners, bannersEt, i + 1)
    ELSE ParseBanners(
             SetBanner(banners, FindText(bannersEt[i], <<"B", "a", "n", "n", "e", "r", "T", "y", "p", "e">>),
                       FindText(bannersEt[i], <<"B", "a", "n", "n", "e", "r", "T", "y", "p", "e", "2">>),
                       FindText(bannersEt[i], <<"i", "d">>), bannersEt[i]),
             bannersEt, i + 1)

\* _getShowData, the loop over the children of one Episode element
RECURSIVE SetEpisodeInfo(_, _, _, _, _, _)
SetEpisodeInfo(shows, sid, seas_no, ep_no, cur_ep, i) ==
    IF i > Len(cur_ep) THEN shows
    ELSE SetEpisodeInfo(
             IF cur_ep[i].text # None
             THEN SetItem(shows, sid, seas_no, ep_no, Lower(cur_ep[i].tag),
                          CleanData(cur_ep[i].text))
             ELSE shows,
             sid, seas_no, ep_no, cur_ep, i + 1)

\* _getShowData, the loop over the Episode elements
RECURSIVE ParseEpisodes(_, _, _, _)
ParseEpisodes(shows, sid, epsEt, i) ==
    IF i > Len(epsEt) THEN shows
    ELSE ParseEpisodes(
             SetEpisodeInfo(shows, sid,
                            ParseInt(FindText(epsEt[i], <<"S", "e", "a", "s", "o", "n", "N", "u", "m", "b", "e", "r">>)),
                            ParseInt(FindText(epsEt[i], <<"E", "p", "i", "s", "o", "d", "e", "N", "u", "m", "b", "e", "r">>)),
                            epsEt[i], 1),
             sid, epsEt, i + 1)

\* How a call of Tvdb._getShowData ends: the shows it leaves, the exception
\* it raises ("none" when it returns) and the URLs it fetched, in order.
\* env holds the answers of the remote service to the call's fetches.

\* _getShowData catching the tvdb_error of the episode list
GetEpisodeData_swallow(shows, sid, env, fetched) ==
    IF ~env.epInfo.ok
    THEN [shows |-> shows, exc |-> "none",
          fetches |-> fetched \o <<"url_epInfo">>]
    ELSE [shows |-> ParseEpisodes(shows, sid, env.epInfo.doc, 1),
          exc |-> "none", fetches |-> fetched \o <<"url_epInfo">>]

\* _getShowData, lines 481-494: the episode list
GetEpisodeData(shows, sid, env, fetched) ==
    IF ~env.epInfo.ok
    THEN [shows |-> shows, exc |-> "tvdb_error",
          fetches |-> fetched \o <<"url_epInfo">>]
    ELSE [shows |-> ParseEpisodes(shows, sid, env.epInfo.doc, 1),
          exc |-> "none", fetches |-> fetched \o <<"url_epInfo">>]

\* _getShowData filling the banners the Show already has, not a new dict
GetBannerData_keep(config, shows, sid, env, fetched) ==
    IF ~config.banners_enabled
    THEN GetEpisodeData(shows, sid, env, fetched)
    ELSE IF ~env.seriesBanner.ok
    THEN [shows |-> shows, exc |-> "tvdb_error",
          fetches |-> fetched \o <<"url_seriesBanner">>]
    ELSE GetEpisodeData(
             SetShowData(shows, sid, <<"_", "b", "a", "n", "n", "e", "r", "s">>,
                         ParseBanners(
                             GetOrNew(shows[sid].data,
                                      <<"_", "b", "a", "n", "n", "e", "r", "s">>),
                             env.seriesBanner.doc, 1)),
             sid, env, fetched \o <<"url_seriesBanner">>)

\* _getShowData, lines 447-479: the banners, when enabled
GetBannerData(config, shows, sid, env, fetched) ==
    IF ~config.banners_enabled
    THEN GetEpisodeData(shows, sid, env, fetched)
    ELSE IF ~env.seriesBanner.ok
    THEN [shows |-> shows, exc |-> "tvdb_error",
          fetches |-> fetched \o <<"url_seriesBanner">>]
    ELSE GetEpisodeData(
             SetShowData(shows, sid, <<"_", "b", "a", "n", "n", "e", "r", "s">>,
                         ParseBanners(EmptyDict, env.seriesBanner.doc, 1)),
             sid, env, fetched \o <<"url_seriesBanner">>)

\* _getShowData going on to the next document when the show info fails
GetShowData_goeson(config, shows, sid, env) ==
    IF ~env.seriesInfo.ok
    THEN GetBannerData(config, shows, sid, env, <<"url_seriesInfo">>)
    ELSE GetBannerData(config,
                       SetSeriesInfo(shows, sid, env.seriesInfo.doc, 1),
                       sid, env, <<"url_seriesInfo">>)

\* Tvdb._getShowData(sid)
GetShowData(config, shows, sid, env) ==
    IF ~env.seriesInfo.ok
    THEN [shows |-> shows, exc |-> "tvdb_error",
          fetches |-> <<"url_seriesInfo">>]
    ELSE GetBannerData(config,
                       SetSeriesInfo(shows, sid, env.seriesInfo.doc, 1),
                       sid, env, <<"url_seriesInfo">>)

\* ----------------------------------------------------------------- resolver

\* _getSeries testing config['interactive'] before config['custom_ui']
WhichUI_interactivefirst(config) ==
    IF config.interactive THEN "ConsoleUI"
    ELSE IF config.custom_ui # "None" THEN "custom_ui"
    ELSE "BaseUI"

\* _getSeries, lines 412-423: the disambiguator that is built
WhichUI(config) ==
    IF config.custom_ui # "None" THEN "custom_ui"
    ELSE IF ~config.interactive THEN "BaseUI"
    ELSE "ConsoleUI"

\* ui.selectSeries(allSeries): BaseUI returns the first candidate; ConsoleUI
\* and a custom UI return the candidate the user picks, or raise
\* tvdb_userabort when the user quits (pick = 0)
SelectSeries(ui, allSeries, pick) ==
    IF ui = "BaseUI" THEN [exc |-> "none", selected |-> allSeries[1]]
    ELSE IF pick = 0
    THEN [exc |-> "tvdb_userabort", selected |-> [sid |-> 0, name |-> None]]
    ELSE [exc |-> "none", selected |-> allSeries[pick]]

\* _getSeries, lines 398-406: the candidates of the search document
AllSeries(seriesEt) ==
    [i \in 1..Len(seriesEt) |->
        [sid |-> seriesEt[i].id, name |-> CleanData(seriesEt[i].SeriesName)]]

\* _getSeries, lines 408-425, on the candidates found
GetSeriesSelect(config, allSeries, pick) ==
    IF Len(allSeries) = 0
    THEN [exc |-> "tvdb_shownotfound",
          selected |-> [sid |-> 0, name |-> None],
          fetches |-> <<"url_getSeries">>, selects |-> 0, ui |-> "none"]
    ELSE SelectSeries(WhichUI(config), allSeries, pick)
         @@ [fetches |-> <<"url_getSeries">>, selects |-> 1,
             ui |-> WhichUI(config)]

\* Tvdb._getSeries(series): the exception it ends with, the candidate it
\* returns, the URLs fetched, the number of selectSeries calls and the ui
\* that was built ("none" when the call ends before)
GetSeries(config, series, env) ==
    IF ~env.getSeries.ok
    THEN [exc |-> "tvdb_error", selected |-> [sid |-> 0, name |-> None],
          fetches |-> <<"url_getSeries">>, selects |-> 0, ui |-> "none"]
    ELSE GetSeriesSelect(config, AllSeries(env.getSeries.doc), env.pick)

\* _nameToSid, lines 508-514, with g the outcome of _getSeries and h the
\* outcome of _getShowData: the name is cached before the show is hydrated
NameToSidEnd(corrections, name, g, h) ==
    [corrections |-> Put(corrections, name, g.selected.sid),
     shows |-> h.shows, exc |-> h.exc, sid |-> g.selected.sid,
     fetches |-> g.fetches \o h.fetches, selects |-> g.selects,
     selected |-> g.selected, ui |-> g.ui,
     hydrated |-> <<g.selected.sid>>,
     completed |-> IF h.exc = "none" THEN <<g.selected.sid>> ELSE <<>>]

\* _nameToSid caching the name before _getSeries has returned
NameToSidNew_cachefirst(config, corrections, shows, name, env, g) ==
    IF g.exc # "none"
    THEN [corrections |-> Put(corrections, name, 0), shows |-> shows,
          exc |-> g.exc, sid |-> 0, fetches |-> g.fetches,
          selects |-> g.selects, selected |-> g.selected, ui |-> g.ui,
          hydrated |-> <<>>, completed |-> <<>>]
    ELSE NameToSidEnd(corrections, name, g,
                      GetShowData(config, shows, g.selected.sid, env))

\* _nameToSid, lines 505-514, with g the outcome of _getSeries
NameToSidNew(config, corrections, shows, name, env, g) ==
    IF g.exc # "none"
    THEN [corrections |-> corrections, shows |-> shows, exc |-> g.exc,
          sid |-> 0, fetches |-> g.fetches, selects |-> g.selects,
          selected |-> g.selected, ui |-> g.ui,
          hydrated |-> <<>>, completed |-> <<>>]
    ELSE NameToSidEnd(corrections, name, g,
                      GetShowData(config, shows, g.selected.sid, env))

\* _nameToSid putting a placeholder for the name before the search
NameToSid_placeholder(config, corrections, shows, name, env) ==
    IF name \in DOMAIN corrections
    THEN [corrections |-> corrections, shows |-> shows, exc |-> "none",
          sid |-> corrections[name], fetches |-> <<>>, selects |-> 0,
          selected |-> [sid |-> 0, name |-> None], ui |-> "none",
          hydrated |-> <<>>, completed |-> <<>>]
    ELSE NameToSidNew(config, Put(corrections, name, 0), shows, name, env,
                      GetSeries(config, name, env))

\* _nameToSid without the test of self.corrections
NameToSid_nocache(config, corrections, shows, name, env) ==
    NameToSidNew(config, corrections, shows, name, env,
                 GetSeries(config, name, env))

\* Tvdb._nameToSid(name) on self.corrections and self.shows: hydrated lists
\* the ids _getShowData was called with, completed those it returned for
NameToSid(config, corrections, shows, name, env) ==
    IF name \in DOMAIN corrections
    THEN [corrections |-> corrections, shows |-> shows, exc |-> "none",
          sid |-> corrections[name], fetches |-> <<>>, selects |-> 0,
          selected |-> [sid |-> 0, name |-> None], ui |-> "none",
          hydrated |-> <<>>, completed |-> <<>>]
    ELSE NameToSidNew(config, corrections, shows, name, env,
                      GetSeries(config, name, env))

\* __getitem__, line 524: return self.shows[sid]; oid is the Show instance
\* returned (0 when the call raises)
TvdbReturn(r) ==
    IF r.exc # "none" THEN r @@ [oid |-> 0]
    ELSE IF r.sid \notin DOMAIN r.shows
    THEN [r EXCEPT !.exc = "KeyError"] @@ [oid |-> 0]
    ELSE r @@ [oid |-> r.shows[r.sid].oid]

\* Tvdb.__getitem__ without key.lower()
TvdbGetItem_nolower(config, corrections, shows, key, env) ==
    TvdbReturn(NameToSid(config, corrections, shows, key, env))

\* Tvdb.__getitem__(key)
TvdbGetItem(config, corrections, shows, key, env) ==
    TvdbReturn(NameToSid(config, corrections, shows, Lower(key), env))

\* ------------------------------------------------ the remote service's answers

Sids == {1, 2}

\* the Series elements of a name search
SeriesA == [id |-> 1, SeriesName |-> <<"L", "o", "s", "t">>]

SeriesB == [id |-> 2, SeriesName |-> <<" ", "L", "a", "w", " ", "&", "a", "m", "p", ";", " ", "O", "r", "d", "e", "r", " ">>]

SearchDocs == {<<>>, <<SeriesA, SeriesB>>, <<SeriesB, SeriesA>>}

\* the children of the Series element of a show-info document
SeriesInfoDocs ==
    {<<Child(<<"i", "d">>, <<"7">>), Child(<<"S", "e", "r", "i", "e", "s", "N", "a", "m", "e">>, <<"L", "o", "s", "t">>), Child(<<"O", "v", "e", "r", "v", "i", "e", "w">>, None)>>}

\* a Banner element, and the banner documents: the element once, and twice
BannerA ==
    <<Child(<<"i", "d">>, <<"9">>),
      Child(<<"B", "a", "n", "n", "e", "r", "T", "y", "p", "e">>, <<"f", "a", "n", "a", "r", "t">>),
      Child(<<"B", "a", "n", "n", "e", "r", "T", "y", "p", "e", "2">>, <<"h", "d">>),
      Child(<<"b", "a", "n", "n", "e", "r", "p", "a", "t", "h">>, <<"f", "/", "9", ".", "j", "p", "g">>)>>

BannerDocs == {<<BannerA>>, <<BannerA, BannerA>>}

\* the Episode elements of an episode-list document
EpisodeA ==
    <<Child(<<"S", "e", "a", "s", "o", "n", "N", "u", "m", "b", "e", "r">>, <<"1">>), Child(<<"E", "p", "i", "s", "o", "d", "e", "N", "u", "m", "b", "e", "r">>, <<"1">>),
      Child(<<"E", "p", "i", "s", "o", "d", "e", "N", "a", "m", "e">>, <<"M", "y", " ", "F", "i", "r", "s", "t", " ", "D", "a", "y">>), Child(<<"O", "v", "e", "r", "v", "i", "e", "w">>, None)>>

EpisodeB ==
    <<Child(<<"S", "e", "a", "s", "o", "n", "N", "u", "m", "b", "e", "r">>, <<"1">>), Child(<<"E", "p", "i", "s", "o", "d", "e", "N", "u", "m", "b", "e", "r">>, <<"2">>),
      Child(<<"E", "p", "i", "s", "o", "d", "e", "N", "a", "m", "e">>, <<" ", "T", "o", "m", " ", "&", "a", "m", "p", ";", " ", "J", "e", "r", "r", "y", " ">>), Child(<<"O", "v", "e", "r", "v", "i", "e", "w">>, <<"f", "i", "r", "s", "t">>)>>

EpisodeC ==
    <<Child(<<"S", "e", "a", "s", "o", "n", "N", "u", "m", "b", "e", "r">>, <<"2">>), Child(<<"E", "p", "i", "s", "o", "d", "e", "N", "u", "m", "b", "e", "r">>, <<"1">>),
      Child(<<"E", "p", "i", "s", "o", "d", "e", "N", "a", "m", "e">>, <<"M", "y", " ", "M", "e", "n", "t", "o", "r">>)>>

EpisodeDocs == {<<EpisodeA, EpisodeB>>, <<EpisodeA, EpisodeC>>}

Responses(docs) == {IOError} \cup {Ok(d) : d \in docs}

\* the answers to the fetches of one call and the user's pick at the
\* prompt (0 quits).  A fetch the call does not reach has no answer, which
\* is written IOError: after a failed fetch nothing more is fetched, the
\* banners are fetched only when enabled, and a call that ends in
\* _getSeries fetches nothing else.
Env(getSeries, pick, seriesInfo, seriesBanner, epInfo) ==
    [getSeries |-> getSeries, pick |-> pick, seriesInfo |-> seriesInfo,
     seriesBanner |-> seriesBanner, epInfo |-> epInfo]

Picks(config, seriesEt) ==
    IF WhichUI(config) = "BaseUI" THEN {1} ELSE 0..Len(seriesEt)

Envs(config, corrections, name) ==
    IF Lower(name) \in DOMAIN corrections
    THEN {Env(IOError, 0, IOError, IOError, IOError)}
    ELSE
    {Env(IOError, 0, IOError, IOError, IOError),
     Env(Ok(<<>>), 0, IOError, IOError, IOError)}
    \cup
    {e \in
        UNION {
            {Env(Ok(d), p, i, b, x) :
                p \in Picks(config, d),
                i \in Responses(SeriesInfoDocs),
                b \in Responses(BannerDocs),
                x \in Responses(EpisodeDocs)} :
            d \in SearchDocs \ {<<>>}} :
        /\ e.pick = 0 =>
               e.seriesInfo = IOError
        /\ ~e.seriesInfo.ok \/ ~config.banners_enabled =>
               e.seriesBanner = IOError
        /\ ~e.seriesInfo.ok \/ (config.banners_enabled /\ ~e.seriesBanner.ok) =>
               e.epInfo = IOError}

\* ------------------------------------------------------------------- inputs

\* the show names asked for
InputNames == {<<"L", "o", "s", "t">>, <<"l", "o", "s", "t">>, <<"L", "a", "w">>}

\* Tvdb(interactive, select_first, banners, custom_ui): every combination
Configs ==
    [interactive : BOOLEAN, select_first : BOOLEAN,
     banners_enabled : BOOLEAN, custom_ui : {"None", "CustomUI"}]

\* -------------------------------------------------------------------- state

VARIABLES
    config,        \* self.config, set by Tvdb.__init__
    corrections,   \* self.corrections: lowercase show name -> series id
    shows,         \* self.shows: series id -> Show
    last,          \* the call made last and how it ended
    returned,      \* per show name, the Show instance its first returning
                   \* resolve call returned (0: none yet)
    hydStarts,     \* per series id, the number of _getShowData calls
    hydDone        \* the series ids a _getShowData call has returned for

vars == <<config, corrections, shows, last, returned, hydStarts, hydDone>>

\* Tvdb.__init__
Init ==
    /\ config \in Configs
    /\ corrections = EmptyDict
    /\ shows = EmptyDict
    /\ last = [op |-> "__init__"]
    /\ returned = [n \in InputNames |-> 0]
    /\ hydStarts = [sid \in Sids |-> 0]
    /\ hydDone = {}

\* tvdb[name]
Resolve(name, env) ==
    \E r \in {TvdbGetItem(config, corrections, shows, name, env)} :
        /\ corrections' = r.corrections
        /\ shows' = r.shows
        /\ last' = [op |-> "Tvdb.__getitem__", name |-> name, exc |-> r.exc,
                    sid |-> r.sid, oid |-> r.oid, fetches |-> r.fetches,
                    selects |-> r.selects, selected |-> r.selected,
                    hydrated |-> r.hydrated, ui |-> r.ui, answers |-> env,
                    cached |-> Lower(name) \in DOMAIN corrections,
                    before |-> returned]
        /\ returned' = IF r.exc = "none" /\ returned[name] = 0
                       THEN [returned EXCEPT ![name] = r.oid]
                       ELSE returned
        /\ hydStarts' = [sid \in Sids |->
                            hydStarts[sid]
                            + Cardinality({i \in 1..Len(r.hydrated) :
                                              r.hydrated[i] = sid})]
        /\ hydDone' = hydDone \cup {r.completed[i] : i \in 1..Len(r.completed)}
        /\ UNCHANGED config

Resolves ==
    \E name \in InputNames :
        \E env \in Envs(config, corrections, name) : Resolve(name, env)

Next == Resolves

Spec == Init /\ [][Next]_vars

\* ------------------------------------------------- lookups and searches

MaxKey == 3

\* the keys asked for: season and episode numbers, attribute names, and
\* strings that int() takes or refuses
KeyTexts ==
    {<<"s", "e", "r", "i", "e", "s", "n", "a", "m", "e">>, <<"S", "e", "r", "i", "e", "s", "N", "a", "m", "e">>, <<"o", "v", "e", "r", "v", "i", "e", "w">>, <<"e", "p", "i", "s", "o", "d", "e", "n", "a", "m", "e">>, <<"_", "b", "a", "n", "n", "e", "r", "s">>,
     <<"1">>, <<" ", "2", " ">>, <<"-", "1">>, <<"1", "x">>, <<>>}

LookupKeys ==
    {IntKey(i) : i \in 0..MaxKey} \cup {StrKey(t) : t \in KeyTexts}

SearchTerms == {None, <<"f", "i", "r", "s", "t", " ", "d", "a", "y">>, <<"F", "I", "R", "S", "T">>, <<"a", "n", "d">>, <<"M", "y">>, <<"z", "z">>, <<>>}

SearchKeys == {None, <<"e", "p", "i", "s", "o", "d", "e", "n", "a", "m", "e">>, <<"s", "e", "a", "s", "o", "n", "n", "u", "m", "b", "e", "r">>, <<"E", "p", "i", "s", "o", "d", "e", "N", "a", "m", "e">>}

\* the answers of a call that fetches nothing
NoAnswers == Env(IOError, 0, IOError, IOError, IOError)

\* the catalogs a tvdb[name] call can leave
AfterCall(cfg, cat, name) ==
    {[corrections |-> r.corrections, shows |-> r.shows] :
        r \in {TvdbGetItem(cfg, cat.corrections, cat.shows, name, env) :
                  env \in Envs(cfg, cat.corrections, name)}}

\* the catalogs left by two tvdb[name] calls on a new Tvdb
Catalogs(cfg) ==
    UNION {AfterCall(cfg, cat, name) :
              cat \in UNION {AfterCall(cfg, [corrections |-> EmptyDict,
                                             shows |-> EmptyDict], n) :
                                n \in InputNames},
              name \in InputNames}

\* The lookups and searches read no option: the catalogs they are made on
\* are those of Tvdb() and Tvdb(banners = True).
ReadConfigs ==
    {c \in Configs : ~c.interactive /\ c.select_first /\ c.custom_ui = "None"}

InitRead ==
    /\ config \in ReadConfigs
    /\ \E cat \in Catalogs(config) :
           /\ corrections = cat.corrections
           /\ shows = cat.shows
    /\ last = [op |-> "__init__"]
    /\ returned = [n \in InputNames |-> 0]
    /\ hydStarts = [sid \in Sids |-> 0]
    /\ hydDone = {}

\* A lookup or a search is made on the catalog the tvdb[name] calls left: it
\* leaves the catalog as it found it, so each call of a sequence of lookups
\* and searches starts from that catalog.
FirstCall == last.op = "__init__"

\* show[key]
ShowLookup(sid, key) ==
    /\ sid \in DOMAIN shows
    /\ LET r == ShowGetItem(shows[sid], key)
       IN  /\ shows' = [shows EXCEPT ![sid] = r.self]
           /\ last' = [op |-> "Show.__getitem__", sid |-> sid, key |-> key,
                       exc |-> r.exc, val |-> r.val]
    /\ UNCHANGED <<config, corrections, returned, hydStarts, hydDone>>

\* season[key]
SeasonLookup(sid, seas, key) ==
    /\ sid \in DOMAIN shows
    /\ seas \in DOMAIN shows[sid].seasons
    /\ LET r == SeasonGetItem(shows[sid].seasons[seas], key)
       IN  /\ shows' = [shows EXCEPT ![sid].seasons[seas] = r.self]
           /\ last' = [op |-> "Season.__getitem__", sid |-> sid,
                       seas |-> seas, key |-> key, exc |-> r.exc,
                       val |-> r.val]
    /\ UNCHANGED <<config, corrections, returned, hydStarts, hydDone>>

\* episode[key]
EpisodeLookup(sid, seas, ep, key) ==
    /\ sid \in DOMAIN shows
    /\ seas \in DOMAIN shows[sid].seasons
    /\ ep \in DOMAIN shows[sid].seasons[seas]
    /\ LET r == EpisodeGetItem(shows[sid].seasons[seas][ep], key)
       IN  /\ shows' = [shows EXCEPT ![sid].seasons[seas][ep] = r.self]
           /\ last' = [op |-> "Episode.__getitem__", sid |-> sid,
                       seas |-> seas, ep |-> ep, key |-> key,
                       exc |-> r.exc, val |-> r.val]
    /\ UNCHANGED <<config, corrections, returned, hydStarts, hydDone>>

\* how tvdb[name][seas][ep][attr] ends
PathEnds(name, seas, ep, attr, exc, val, shows1) ==
    /\ shows' = shows1
    /\ last' = [op |-> "path", name |-> name, seas |-> seas, ep |-> ep,
                attr |-> attr, exc |-> exc, val |-> val]

\* tvdb[name][seas][ep][attr] for a name that is cached: the four
\* __getitem__ calls in turn, the first exception ending the expression
PathLookup(name, seas, ep, attr) ==
    /\ Lower(name) \in DOMAIN corrections
    /\ \E r0 \in {TvdbGetItem(config, corrections, shows, name, NoAnswers)} :
         /\ corrections' = r0.corrections
         /\ IF r0.exc # "none"
            THEN PathEnds(name, seas, ep, attr, r0.exc, None, r0.shows)
            ELSE
            \E r1 \in {ShowGetItem(r0.shows[r0.sid], IntKey(seas))} :
            \E s1 \in {[r0.shows EXCEPT ![r0.sid] = r1.self]} :
            IF r1.exc # "none"
            THEN PathEnds(name, seas, ep, attr, r1.exc, None, s1)
            ELSE
            \E r2 \in {SeasonGetItem(s1[r0.sid].seasons[seas], IntKey(ep))} :
            \E s2 \in {[s1 EXCEPT ![r0.sid].seasons[seas] = r2.self]} :
            IF r2.exc # "none"
            THEN PathEnds(name, seas, ep, attr, r2.exc, None, s2)
            ELSE
            \E r3 \in {EpisodeGetItem(s2[r0.sid].seasons[seas][ep],
                                      StrKey(attr))} :
                PathEnds(name, seas, ep, attr, r3.exc, r3.val,
                         [s2 EXCEPT ![r0.sid].seasons[seas][ep] = r3.self])
    /\ UNCHANGED <<config, returned, hydStarts, hydDone>>

\* episode.search(term, key)
EpisodeSearchCall(sid, seas, ep, term, key) ==
    /\ sid \in DOMAIN shows
    /\ seas \in DOMAIN shows[sid].seasons
    /\ ep \in DOMAIN shows[sid].seasons[seas]
    /\ LET r == EpisodeSearch(shows[sid].seasons[seas][ep], term, key)
       IN  last' = [op |-> "Episode.search", sid |-> sid, seas |-> seas,
                    ep |-> ep, term |-> term, key |-> key, exc |-> r.exc,
                    found |-> r.found]
    /\ UNCHANGED <<config, corrections, shows, returned, hydStarts, hydDone>>

\* season.search(term, key)
SeasonSearchCall(sid, seas, term, key) ==
    /\ sid \in DOMAIN shows
    /\ seas \in DOMAIN shows[sid].seasons
    /\ LET r == SeasonSearch(shows[sid].seasons[seas], term, key)
       IN  last' = [op |-> "Season.search", sid |-> sid, seas |-> seas,
                    term |-> term, key |-> key, exc |-> r.exc,
                    results |-> r.results]
    /\ UNCHANGED <<config, corrections, shows, returned, hydStarts, hydDone>>

\* show.search(term, key)
ShowSearchCall(sid, term, key) ==
    /\ sid \in DOMAIN shows
    /\ LET r == ShowSearch(shows[sid], term, key)
       IN  last' = [op |-> "Show.search", sid |-> sid, term |-> term,
                    key |-> key, exc |-> r.exc, results |-> r.results]
    /\ UNCHANGED <<config, corrections, shows, returned, hydStarts, hydDone>>

ShowLookups ==
    /\ FirstCall
    /\ \E sid \in Sids, key \in LookupKeys : ShowLookup(sid, key)

SeasonLookups ==
    /\ FirstCall
    /\ \E sid \in Sids, seas \in 0..MaxKey, key \in LookupKeys :
           SeasonLookup(sid, seas, key)

EpisodeLookups ==
    /\ FirstCall
    /\ \E sid \in Sids, seas \in 0..MaxKey, ep \in 0..MaxKey,
          key \in LookupKeys : EpisodeLookup(sid, seas, ep, key)

PathLookups ==
    /\ FirstCall
    /\ \E name \in InputNames, seas \in 0..MaxKey, ep \in 0..MaxKey,
          attr \in KeyTexts : PathLookup(name, seas, ep, attr)

EpisodeSearches ==
    /\ FirstCall
    /\ \E sid \in Sids, seas \in 0..MaxKey, ep \in 0..MaxKey,
          term \in SearchTerms, key \in SearchKeys :
           EpisodeSearchCall(sid, seas, ep, term, key)

SeasonSearches ==
    /\ FirstCall
    /\ \E sid \in Sids, seas \in 0..MaxKey, term \in SearchTerms,
          key \in SearchKeys : SeasonSearchCall(sid, seas, term, key)

ShowSearches ==
    /\ FirstCall
    /\ \E sid \in Sids, term \in SearchTerms, key \in SearchKeys :
           ShowSearchCall(sid, term, key)

NextRead ==
    \/ ShowLookups
    \/ SeasonLookups
    \/ EpisodeLookups
    \/ PathLookups
    \/ EpisodeSearches
    \/ SeasonSearches
    \/ ShowSearches

SpecRead == InitRead /\ [][NextRead]_vars

\* ------------------------------------------------------------------- claims

IsResolve == last.op = "Tvdb.__getitem__"

\* C1 (memoization): a tvdb[name] call made after a tvdb[name] call of the
\* same name has returned a Show returns that same Show instance and
\* fetches nothing.
C1_Memoized ==
    (IsResolve /\ last.before[last.name] # 0) =>
        /\ last.exc = "none"
        /\ last.oid = last.before[last.name]
        /\ last.fetches = <<>>

\* a name is asked for again after it has returned a Show, with another
\* show resolved as well
C1_Witness ==
    /\ IsResolve
    /\ last.before[last.name] # 0
    /\ last.exc = "none"
    /\ Cardinality(DOMAIN shows) = 2

\* C2 (at-most-once hydration): over serialized tvdb[name] calls,
\* _getShowData is called at most once for each series id.
C2_HydratedOnce == \A sid \in Sids : hydStarts[sid] <= 1

\* C3 (hydrate-if-missing): every tvdb[name] call that returns a Show returns
\* the Show of a series id for which a _getShowData call has run to its end.
C3_ReturnedShowHydrated ==
    (IsResolve /\ last.exc = "none") => last.sid \in hydDone

\* C4 (case-insensitive names): once tvdb[n1] has returned, tvdb[n2] for a
\* name n2 with the same lowercase form fetches nothing, asks no
\* disambiguator and returns the same Show; the keys of self.corrections
\* are lowercase.
C4_CaseInsensitive ==
    /\ \A k \in DOMAIN corrections : Lower(k) = k
    /\ IsResolve =>
           \A n1 \in InputNames :
               (Lower(n1) = Lower(last.name) /\ last.before[n1] # 0) =>
                   /\ last.exc = "none"
                   /\ last.fetches = <<>>
                   /\ last.selects = 0
                   /\ last.oid = last.before[n1]

\* a name is asked for the first time after another spelling of it has
\* returned a Show
C4_Witness ==
    /\ IsResolve
    /\ last.before[last.name] = 0
    /\ \E n1 \in InputNames :
           /\ n1 # last.name
           /\ Lower(n1) = Lower(last.name)
           /\ last.before[n1] # 0

\* C5 (zero candidates): when the search for a name that is not cached
\* answers with no candidate, the call raises tvdb_shownotfound, selectSeries
\* is not called, nothing else is fetched and the name is not cached; with
\* one or more candidates selectSeries is called once, and the id of the
\* candidate it returns is the one cached for the name.
C5_Candidates ==
    (IsResolve /\ ~last.cached /\ last.answers.getSeries.ok) =>
        IF Len(last.answers.getSeries.doc) = 0
        THEN /\ last.exc = "tvdb_shownotfound"
             /\ last.selects = 0
             /\ last.fetches = <<"url_getSeries">>
             /\ last.hydrated = <<>>
             /\ Lower(last.name) \notin DOMAIN corrections
        ELSE /\ last.selects = 1
             /\ IF last.exc = "tvdb_userabort"
                THEN Lower(last.name) \notin DOMAIN corrections
                ELSE /\ Lower(last.name) \in DOMAIN corrections
                     /\ corrections[Lower(last.name)] = last.selected.sid

\* the search for a name that is not cached finds no candidate
C5_Witness ==
    /\ IsResolve
    /\ ~last.cached
    /\ last.answers.getSeries.ok
    /\ Len(last.answers.getSeries.doc) = 0
    /\ corrections # EmptyDict

\* the keys of LookupKeys that look numeric: the numbers, and the strings
\* Python's int() converts
NumericLooking(key) ==
    \/ key.t = "int"
    \/ key.s \in {<<"1">>, <<" ", "2", " ">>, <<"-", "1">>}

\* C6 (Show lookup error kind): show[k] returns the Season when k is the
\* number of one of the Show's seasons, and that Season holds episodes;
\* otherwise, when k is no attribute of the show, it raises
\* tvdb_seasonnotfound if k looks numeric and tvdb_attributenotfound if not.
C6_ShowLookup ==
    last.op = "Show.__getitem__" =>
        IF last.key.t = "int" /\ last.key.i \in DOMAIN shows[last.sid].seasons
        THEN /\ last.exc = "none"
             /\ last.val = shows[last.sid].seasons[last.key.i]
             /\ DOMAIN last.val # {}
        ELSE IF last.key.t = "str" /\ last.key.s \in DOMAIN shows[last.sid].data
        THEN last.exc = "none"
        ELSE IF NumericLooking(last.key)
        THEN last.exc = "tvdb_seasonnotfound"
        ELSE last.exc = "tvdb_attributenotfound"

\* a string that looks numeric is looked up on a Show that has seasons
C6_Witness ==
    /\ last.op = "Show.__getitem__"
    /\ last.key.t = "str"
    /\ last.exc = "tvdb_seasonnotfound"
    /\ DOMAIN shows[last.sid].seasons # {}

\* the exception tvdb[name][seas][ep][attr] is to end with, on a Show
PathException(show, seas, ep, attr) ==
    IF seas \notin DOMAIN show.seasons THEN "tvdb_seasonnotfound"
    ELSE IF ep \notin DOMAIN show.seasons[seas] THEN "tvdb_episodenotfound"
    ELSE IF attr \notin DOMAIN show.seasons[seas][ep]
    THEN "tvdb_attributenotfound"
    ELSE "none"

\* C7 (Season and Episode lookup errors): season[e] returns the Episode when
\* e is present and raises tvdb_episodenotfound otherwise; episode[a] returns
\* the value when a is present and raises tvdb_attributenotfound otherwise;
\* along tvdb[name][season][episode][attribute] a missing season, episode
\* and attribute each raise their own exception.
C7_Lookups ==
    /\ last.op = "Season.__getitem__" =>
           IF last.key.t = "int"
                 /\ last.key.i \in DOMAIN shows[last.sid].seasons[last.seas]
           THEN /\ last.exc = "none"
                /\ last.val = shows[last.sid].seasons[last.seas][last.key.i]
           ELSE last.exc = "tvdb_episodenotfound"
    /\ last.op = "Episode.__getitem__" =>
           IF last.key.t = "str"
                 /\ last.key.s \in
                        DOMAIN shows[last.sid].seasons[last.seas][last.ep]
           THEN /\ last.exc = "none"
                /\ last.val =
                       shows[last.sid].seasons[last.seas][last.ep][last.key.s]
           ELSE last.exc = "tvdb_attributenotfound"
    /\ (last.op = "path" /\ corrections[Lower(last.name)] \in DOMAIN shows) =>
           /\ last.exc = PathException(shows[corrections[Lower(last.name)]],
                                       last.seas, last.ep, last.attr)
           /\ last.exc = "none" =>
                  last.val = shows[corrections[Lower(last.name)]]
                                 .seasons[last.seas][last.ep][last.attr]

\* an episode that is missing from a season that is there is asked for
\* along the path
C7_Witness ==
    /\ last.op = "path"
    /\ last.exc = "tvdb_episodenotfound"
    /\ last.seas \in DOMAIN shows[corrections[Lower(last.name)]].seasons

ReadOps ==
    {"Show.__getitem__", "Season.__getitem__", "Episode.__getitem__", "path",
     "Episode.search", "Season.search", "Show.search"}

\* C8 (reads never create or change anything): a lookup or a search,
\* whether it returns or raises, leaves self.corrections, self.shows and
\* every Show, Season and Episode as they were.
C8_ReadsChangeNothing ==
    [][last'.op \in ReadOps => (corrections' = corrections /\ shows' = shows)]_vars

\* a lookup of a season that is missing has raised
C8_Witness ==
    /\ last.op = "Show.__getitem__"
    /\ last.key.t = "int"
    /\ last.exc = "tvdb_seasonnotfound"

\* t occurs in s
IsSubstring(t, s) ==
    \E i \in 0..(Len(s) - Len(t)) : SubSeq(s, i + 1, i + Len(t)) = t

\* an attribute of the episode qualifies under key and holds the term
Matches(episode, term, key) ==
    \E a \in DOMAIN episode :
        /\ key = None \/ a = key
        /\ IsSubstring(Lower(term), Lower(episode[a]))

\* C9 (Episode.search match rule): episode.search(term, key) returns the
\* episode if and only if an attribute that qualifies (every attribute when
\* key is None, the attribute named key otherwise) holds the lowercased term
\* in its lowercased text; 'My First Day' matches 'first day' with no key
\* and does not match with key 'seasonnumber'.
C9_EpisodeSearch ==
    (last.op = "Episode.search" /\ last.term # None) =>
        /\ last.exc = "none"
        /\ last.found <=>
               Matches(shows[last.sid].seasons[last.seas][last.ep],
                       last.term, last.key)
        /\ (/\ last.term = <<"f", "i", "r", "s", "t", " ", "d", "a", "y">>
            /\ shows[last.sid].seasons[last.seas][last.ep][<<"e", "p", "i", "s", "o", "d", "e", "n", "a", "m", "e">>]
                   = <<"M", "y", " ", "F", "i", "r", "s", "t", " ", "D", "a", "y">>) =>
               /\ last.key = None => last.found
               /\ last.key = <<"s", "e", "a", "s", "o", "n", "n", "u", "m", "b", "e", "r">> => ~last.found

\* an upper-case term is found in the attribute named by the key
C9_Witness ==
    /\ last.op = "Episode.search"
    /\ last.term = <<"F", "I", "R", "S", "T">>
    /\ last.key = <<"e", "p", "i", "s", "o", "d", "e", "n", "a", "m", "e">>
    /\ last.found

\* the episodes of a season that episode.search(term, key) returns
Found(season, term, key) ==
    {e \in DOMAIN season : EpisodeSearch(season[e], term, key).found}

\* C10 (search flattening): season.search returns the episodes of the season
\* that Episode.search returns, show.search those of all its seasons, each
\* of them once and nothing else; the list is empty when nothing matches.
C10_SearchFlattening ==
    /\ (last.op = "Season.search" /\ last.term # None) =>
           /\ last.exc = "none"
           /\ {last.results[i] : i \in 1..Len(last.results)}
                  = Found(shows[last.sid].seasons[last.seas],
                          last.term, last.key)
           /\ \A i, j \in 1..Len(last.results) :
                  last.results[i] = last.results[j] => i = j
    /\ (last.op = "Show.search" /\ last.term # None) =>
           /\ last.exc = "none"
           /\ {last.results[i] : i \in 1..Len(last.results)}
                  = UNION {{<<seas, e>> :
                               e \in Found(shows[last.sid].seasons[seas],
                                           last.term, last.key)} :
                              seas \in DOMAIN shows[last.sid].seasons}
           /\ \A i, j \in 1..Len(last.results) :
                  last.results[i] = last.results[j] => i = j

\* a search of a show finds episodes of two seasons and leaves one out
C10_Witness ==
    /\ last.op = "Show.search"
    /\ \E i, j \in 1..Len(last.results) :
           last.results[i][1] # last.results[j][1]
    /\ \E seas \in DOMAIN shows[last.sid].seasons :
       \E e \in DOMAIN shows[last.sid].seasons[seas] :
           \A i \in 1..Len(last.results) : last.results[i] # <<seas, e>>

\* a tvdb[name] call has hydrated a series id and _getShowData has returned
Hydrated == IsResolve /\ last.hydrated # <<>> /\ last.exc = "none"

\* the season and episode numbers of the Episode elements of a document
EpisodePairs(epsEt) ==
    {<<ParseInt(FindText(epsEt[i], <<"S", "e", "a", "s", "o", "n", "N", "u", "m", "b", "e", "r">>)),
       ParseInt(FindText(epsEt[i], <<"E", "p", "i", "s", "o", "d", "e", "N", "u", "m", "b", "e", "r">>))>> : i \in 1..Len(epsEt)}

\* the (season, episode) pairs a Show holds an Episode at
HeldPairs(show) ==
    UNION {{<<seas, ep>> : ep \in DOMAIN show.seasons[seas]} :
              seas \in DOMAIN show.seasons}

\* the Episode is what the Episode element says: the lowercased tags of
\* the children that have a text, each with its cleaned text
EpisodeOf(episode, cur_ep) ==
    /\ DOMAIN episode =
           {Lower(cur_ep[i].tag) : i \in {j \in 1..Len(cur_ep) :
                                             cur_ep[j].text # None}}
    /\ \A i \in 1..Len(cur_ep) :
           cur_ep[i].text # None =>
               episode[Lower(cur_ep[i].tag)] = CleanData(cur_ep[i].text)

\* C11 (hydrated episode content): after a _getShowData(sid) call that
\* returns, the Show of sid holds an Episode exactly at the (SeasonNumber,
\* EpisodeNumber) pairs of the Episode elements of the episode-list document,
\* and each Episode holds exactly the lowercased tags of the children with a
\* text, each with its text cleaned: ' Tom &amp; Jerry ' is 'Tom and Jerry'.
C11_EpisodeContent ==
    Hydrated =>
        /\ HeldPairs(shows[last.sid]) = EpisodePairs(last.answers.epInfo.doc)
        /\ \A i \in 1..Len(last.answers.epInfo.doc) :
               EpisodeOf(shows[last.sid]
                             .seasons[ParseInt(FindText(
                                          last.answers.epInfo.doc[i],
                                          <<"S", "e", "a", "s", "o", "n", "N", "u", "m", "b", "e", "r">>))]
                                     [ParseInt(FindText(
                                          last.answers.epInfo.doc[i],
                                          <<"E", "p", "i", "s", "o", "d", "e", "N", "u", "m", "b", "e", "r">>))],
                         last.answers.epInfo.doc[i])
        /\ EpisodeB \in {last.answers.epInfo.doc[i] :
                            i \in 1..Len(last.answers.epInfo.doc)} =>
               shows[last.sid].seasons[1][2] =
                   [k \in {<<"s", "e", "a", "s", "o", "n", "n", "u", "m", "b", "e", "r">>,
                           <<"e", "p", "i", "s", "o", "d", "e", "n", "u", "m", "b", "e", "r">>,
                           <<"e", "p", "i", "s", "o", "d", "e", "n", "a", "m", "e">>,
                           <<"o", "v", "e", "r", "v", "i", "e", "w">>} |->
                       IF k = <<"s", "e", "a", "s", "o", "n", "n", "u", "m", "b", "e", "r">> THEN <<"1">>
                       ELSE IF k = <<"e", "p", "i", "s", "o", "d", "e", "n", "u", "m", "b", "e", "r">> THEN <<"2">>
                       ELSE IF k = <<"e", "p", "i", "s", "o", "d", "e", "n", "a", "m", "e">>
                       THEN <<"T", "o", "m", " ", "a", "n", "d", " ", "J", "e", "r", "r", "y">>
                       ELSE <<"f", "i", "r", "s", "t">>]

\* the two calls got the same show-info, banner and episode-list documents
SameDocuments(a, b) ==
    /\ a.seriesInfo = b.seriesInfo
    /\ a.seriesBanner = b.seriesBanner
    /\ a.epInfo = b.epInfo

\* C12 (idempotent re-hydration): a _getShowData(sid) call that runs right
\* after a _getShowData(sid) call of the same sid, against the same
\* documents, leaves self.shows as the first call left it: the same Show
\* instance, seasons, episodes and attribute values.
C12_Idempotent ==
    [][(/\ Hydrated
        /\ Hydrated'
        /\ last'.sid = last.sid
        /\ SameDocuments(last.answers, last'.answers)) => shows' = shows]_vars

\* a series id is hydrated a second time, with banners, from a document
\* that has the episodes the Show holds
C12_Witness ==
    /\ Hydrated
    /\ hydStarts[last.sid] = 2
    /\ config.banners_enabled
    /\ HeldPairs(shows[last.sid]) = EpisodePairs(last.answers.epInfo.doc)
    /\ HeldPairs(shows[last.sid]) # {}

\* the Banner elements of a document that have both types
TypedBanners(bannersEt) ==
    {bannersEt[i] : i \in {j \in 1..Len(bannersEt) :
                              /\ HasChild(bannersEt[j], <<"B", "a", "n", "n", "e", "r", "T", "y", "p", "e">>)
                              /\ HasChild(bannersEt[j], <<"B", "a", "n", "n", "e", "r", "T", "y", "p", "e", "2">>)}}

\* the attribute names of an element
Tags(el) == {el[i].tag : i \in 1..Len(el)}

\* the source attribute names that end in 'path'
PathTags(el) ==
    {k \in Tags(el) :
        Len(k) >= 4 /\ SubSeq(k, Len(k) - 3, Len(k)) = <<"p", "a", "t", "h">>}

\* the record holds the attributes of the element and, for each one that
\* ends in 'path', the URL of its value under '_' + name, and nothing else
BannerRecordOf(rec, el) ==
    /\ DOMAIN rec = Tags(el) \cup {<<"_">> \o k : k \in PathTags(el)}
    /\ \A k \in Tags(el) : rec[k] = FindText(el, k)
    /\ \A k \in PathTags(el) :
           rec[<<"_">> \o k] =
               <<"h", "t", "t", "p", ":", "/", "/", "w", "w", "w", ".", "t", "h", "e", "t", "v", "d", "b", ".", "c", "o", "m">> \o <<"/", "b", "a", "n", "n", "e", "r", "s", "/">> \o FindText(el, k)

\* C13 (banner tree): after a _getShowData call that returns, the show has
\* a '_banners' attribute if and only if banners are enabled; each of its
\* records, at type, subtype and id, holds the attributes of its Banner
\* element and, for each attribute whose name ends in 'path', one more named
\* '_' + name holding base_url + '/banners/' + the value, and no other,
\* whatever the number of Banner elements.
C13_BannerTree ==
    Hydrated =>
        /\ <<"_", "b", "a", "n", "n", "e", "r", "s">> \in DOMAIN shows[last.sid].data
               <=> config.banners_enabled
        /\ config.banners_enabled =>
               \A el \in TypedBanners(last.answers.seriesBanner.doc) :
                   /\ FindText(el, <<"B", "a", "n", "n", "e", "r", "T", "y", "p", "e">>)
                          \in DOMAIN shows[last.sid].data[<<"_", "b", "a", "n", "n", "e", "r", "s">>]
                   /\ BannerRecordOf(
                          shows[last.sid].data[<<"_", "b", "a", "n", "n", "e", "r", "s">>]
                              [FindText(el, <<"B", "a", "n", "n", "e", "r", "T", "y", "p", "e">>)]
                              [FindText(el, <<"B", "a", "n", "n", "e", "r", "T", "y", "p", "e", "2">>)]
                              [FindText(el, <<"i", "d">>)],
                          el)

\* the disambiguator the options ask for
ChosenUI(cfg) ==
    IF cfg.custom_ui # "None" THEN "custom_ui"
    ELSE IF cfg.interactive THEN "ConsoleUI"
    ELSE "BaseUI"

AllFetches(cfg) ==
    <<"url_getSeries", "url_seriesInfo">>
    \o (IF cfg.banners_enabled THEN <<"url_seriesBanner">> ELSE <<>>)
    \o <<"url_epInfo">>

\* the answer of the remote service to the fetch of a URL
AnswerTo(answers, url) ==
    IF url = "url_getSeries" THEN answers.getSeries
    ELSE IF url = "url_seriesInfo" THEN answers.seriesInfo
    ELSE IF url = "url_seriesBanner" THEN answers.seriesBanner
    ELSE answers.epInfo

\* C15 (fetch order): a tvdb[name] call for a name that is not cached
\* fetches the name search, the show info, the banners (if and only if
\* enabled) and the episode list, in that order and each at most once; a
\* fetch is made only when all fetches before it have answered, a call that
\* returns has made them all, and none is made after one that failed.
C15_FetchOrder ==
    (IsResolve /\ ~last.cached) =>
        /\ Len(last.fetches) \in 1..Len(AllFetches(config))
        /\ last.fetches = SubSeq(AllFetches(config), 1, Len(last.fetches))
        /\ \A i \in 1..(Len(last.fetches) - 1) :
               AnswerTo(last.answers, last.fetches[i]).ok
        /\ ~AnswerTo(last.answers, last.fetches[Len(last.fetches)]).ok
               => last.exc = "tvdb_error"
        /\ last.exc = "none" => last.fetches = AllFetches(config)

\* the fetch of the banners fails: the episode list is not fetched
C15_Witness ==
    /\ IsResolve
    /\ ~last.cached
    /\ config.banners_enabled
    /\ last.fetches = <<"url_getSeries", "url_seriesInfo", "url_seriesBanner">>
    /\ last.exc = "tvdb_error"

\* a fetch of the call was answered with a transport failure
FetchFailed ==
    \E i \in 1..Len(last.fetches) : ~AnswerTo(last.answers, last.fetches[i]).ok

\* C16 (connectivity failure is surfaced): a tvdb[name] call one of whose
\* fetches fails raises tvdb_error, no other exception, and returns no Show.
C16_FailureSurfaced ==
    (IsResolve /\ FetchFailed) =>
        /\ last.exc = "tvdb_error"
        /\ last.oid = 0
        /\ returned = last.before

\* the last fetch of a call, the episode list, fails
C16_Witness ==
    /\ IsResolve
    /\ FetchFailed
    /\ Len(last.fetches) = Len(AllFetches(config))
    /\ last.exc = "tvdb_error"

\* C17 (immutable after hydration): once a _getShowData(sid) call has
\* returned, no later call adds, removes or changes a season, an episode or
\* an attribute of the Show of sid.
C17_ImmutableAfterHydration ==
    [][\A sid \in hydDone : shows'[sid] = shows[sid]]_vars

\* C18 (maps only grow): an entry of self.corrections is never removed and
\* never set to another series id, and an entry of self.shows is never
\* removed and never replaced by another Show instance.
C18_MapsOnlyGrow ==
    [][/\ \A name \in DOMAIN corrections :
              /\ name \in DOMAIN corrections'
              /\ corrections'[name] = corrections[name]
       /\ \A sid \in DOMAIN shows :
              /\ sid \in DOMAIN shows'
              /\ shows'[sid].oid = shows[sid].oid]_vars

\* a second name has been cached for a series id whose Show was there, and
\* the call has written to that Show
C18_Witness ==
    /\ IsResolve
    /\ ~last.cached
    /\ last.hydrated # <<>>
    /\ hydStarts[last.sid] = 2
    /\ Cardinality(DOMAIN corrections) = 2
    /\ last.sid \in DOMAIN shows

\* C19 (cache consistency): between calls, also after calls that failed,
\* every series id self.corrections holds is a key of self.shows, and a
\* tvdb[name] call for a cached name returns a Show: it raises no exception
\* such as KeyError.
C19_CacheConsistent ==
    /\ \A name \in DOMAIN corrections : corrections[name] \in DOMAIN shows
    /\ (IsResolve /\ last.cached) => last.exc = "none"

\* the call failed before a series was selected
FailedEarly(call) ==
    /\ call.op = "Tvdb.__getitem__"
    /\ ~call.cached
    /\ call.exc \in {"tvdb_error", "tvdb_shownotfound", "tvdb_userabort"}
    /\ call.hydrated = <<>>

\* C20 (frame on early failure): a tvdb[name] call that fails in _getSeries
\* (tvdb_error on the name search, tvdb_shownotfound, tvdb_userabort) leaves
\* self.corrections and self.shows as they were; the name is still not
\* cached, and a call for a name that is not cached starts with the name
\* search.
C20_EarlyFailureFrame ==
    [][/\ FailedEarly(last') =>
              /\ corrections' = corrections
              /\ shows' = shows
              /\ Lower(last'.name) \notin DOMAIN corrections'
       /\ (last'.op = "Tvdb.__getitem__" /\ ~last'.cached) =>
              Head(last'.fetches) = "url_getSeries"]_vars

\* the user quits the prompt on a Tvdb that holds a Show
C20_Witness ==
    /\ FailedEarly(last)
    /\ last.exc = "tvdb_userabort"
    /\ corrections # EmptyDict
    /\ shows # EmptyDict

====
